---- MODULE Spec2Model ----
(***************************************************************************)
(* OAuth2 / OIDC authorization engine of lc-sso-auth.                      *)
(*                                                                         *)
(* The model covers app/services/oauth_service.py (OAuthService), the      *)
(* /authorize, /consent and /token endpoints of app/api/oauth.py, the      *)
(* authorization-code helpers of app/core/security.py, the Redis wrapper   *)
(* app/core/cache.py and the client checks of app/models/application.py    *)
(* and app/services/application_service.py, together with the userinfo     *)
(* endpoint, the session and rate-limit helpers of app/core/security.py    *)
(* and login, logout and /me of app/api/v1/auth.py, and the account        *)
(* lockout of app/models/user.py and UserService.authenticate_user.        *)
(*                                                                         *)
(* Conventions.                                                            *)
(*  - Python None is the string None below; an Optional[str] is truthy     *)
(*    when it is neither None nor the empty string.                        *)
(*  - A scope string is a sequence of words separated by the element " ",  *)
(*    so that str.split() is a real operation (the empty string is <<>>).  *)
(*  - An Optional object returned by a lookup is a sequence of length 0    *)
(*    (None) or 1.                                                         *)
(*  - The rate-limit gate in front of /authorize and /token is a separate  *)
(*    function (check_rate_limit); the endpoint actions below describe a   *)
(*    request that the gate admitted.                                      *)
(*  - The clock counts seconds.  In the specifications where the clock     *)
(*    stands still, a key of the store reaches its TTL by the action       *)
(*    Expire, at any moment.                                               *)
(***************************************************************************)
EXTENDS Integers, Sequences, FiniteSets, TLC

VARIABLES
    cache,        \* Redis: key -> value, keys are <<namespace, id>>
    expires,      \* Redis: key -> the time at which the key expires
    redis_up,     \* the Redis server answers (no redis.RedisError)
    now,          \* the clock, in seconds
    next_code,    \* number of authorization codes minted so far (uuid4 freshness)
    app_active,   \* applications.is_active, per registered client_id
    user_active,  \* users.is_active, per user id
    challenge_of, \* history: code -> code_challenge of the request that minted it
    granted,      \* history: code -> number of token sets issued for it
    wallet,       \* the token a client kept from an earlier response
    wallet_kind,  \* history: the field of the response the kept token came in
    wallet_grant, \* history: client and scope a kept refresh token was issued for
    last,         \* the last request handled and its response
    pc,           \* per worker process: position inside handle_token_request
    local,        \* per worker process: token request and code_data in hand
    next_session, \* number of sessions created so far (uuid4 freshness)
    next_jti,     \* number of token identifiers generated so far
    cookie,       \* the session_id cookie the user-agent holds, 0 for none
    logged_out,   \* history: the bearer tokens presented at a logout
    session_log,  \* history: session id -> its user, and whether it was logged out or expired
    failed_login_attempts, \* users.failed_login_attempts, per user id
    lockout_until,         \* users.lockout_until, per user id; 0 for NULL
    fresh_failures,        \* history: wrong passwords since the last success or lockout expiry
    rl_pc,        \* per worker process: position inside check_rate_limit
    rl_local,     \* per worker process: the counter value read and the result
    admitted,     \* history: calls that returned True since the counter was created
    window_start, \* history: the time of the call that created the counter
    outage        \* history: a Redis command of check_rate_limit failed

lock_vars == <<failed_login_attempts, lockout_until, fresh_failures>>

auth_vars == <<next_session, next_jti, cookie, logged_out, session_log, lock_vars>>

rate_vars == <<rl_pc, rl_local, admitted, window_start, outage>>

vars == <<cache, expires, redis_up, now, next_code, app_active, user_active,
          challenge_of, granted, wallet, wallet_kind, wallet_grant, last, pc, local,
          auth_vars, rate_vars>>

(***************************************************************************)
(* Bounds                                                                  *)
(***************************************************************************)
MaxCodes == 2

MaxSessions == 2

MaxTime == 3

\* token sets per code after which the workers take no further redemption of it
MaxGrants == 2

\* lockout periods that the clock is let to pass
MaxLockouts == 2

\* the limit and the window (in seconds) that the rate-limited endpoint passes
RateLimit == 2

RateWindow == 2

(***************************************************************************)
(* Values                                                                  *)
(***************************************************************************)
None == "<None>"

Truthy(s) == s # None /\ s # ""

NoneScope == <<None>>

EmptyScope == <<>>

ScopeTruthy(scope) == scope # NoneScope /\ scope # EmptyScope

DefaultScope == <<"openid", " ", "profile", " ", "email">>

RefreshScope == <<"refresh_token">>

ClientScope == <<"client">>

CB == "https://app.example/cb"

EVIL == "https://evil.example/cb"

(***************************************************************************)
(* The applications table (registered OAuth clients) and the users table.  *)
(***************************************************************************)
Applications ==
    [c1 |-> [client_id |-> "c1", name |-> "App One", client_secret |-> "s1",
             redirect_uris |-> {CB},
             allowed_scopes |-> {"openid", "profile"},
             grant_types |-> {"authorization_code", "refresh_token"},
             response_types |-> {"code"},
             is_confidential |-> TRUE, require_consent |-> TRUE,
             access_token_lifetime |-> 3600],
     c2 |-> [client_id |-> "c2", name |-> "App Two", client_secret |-> "s2",
             redirect_uris |-> {CB},
             allowed_scopes |-> {"openid", "offline_access"},
             grant_types |-> {"authorization_code", "refresh_token"},
             response_types |-> {"code"},
             is_confidential |-> FALSE, require_consent |-> FALSE,
             access_token_lifetime |-> 1800]]

Users == {"u1"}

(***************************************************************************)
(* app/core/cache.py                                                       *)
(***************************************************************************)
\* The Redis server as a request sees it: c.up, the clock c.now, the values
\* c.data and the expiry times c.expires.  A command that raises
\* redis.RedisError returns None / False and changes nothing.
cache_get(c, key) == IF c.up /\ key \in DOMAIN c.data THEN <<c.data[key]>> ELSE <<>>

cache_set(c, key, value, ex) ==
    IF c.up
    THEN [c EXCEPT !.data = (key :> value) @@ c.data,
                   !.expires = (key :> (c.now + ex)) @@ c.expires]
    ELSE c

cache_setex(c, key, time, value) ==
    IF c.up
    THEN [c EXCEPT !.data = (key :> value) @@ c.data,
                   !.expires = (key :> (c.now + time)) @@ c.expires]
    ELSE c

cache_delete(c, key) ==
    IF c.up
    THEN [c EXCEPT !.data = [k \in (DOMAIN c.data) \ {key} |-> c.data[k]],
                   !.expires = [k \in (DOMAIN c.expires) \ {key} |-> c.expires[k]]]
    ELSE c

AuthCodeKey(code) == <<"auth_code", code>>

(***************************************************************************)
(* app/models/application.py                                               *)
(***************************************************************************)
split(scope) == SelectSeq(scope, LAMBDA w : w # " ")

Words(scope) == {split(scope)[i] : i \in 1..Len(split(scope))}

is_redirect_uri_allowed(app, redirect_uri) == redirect_uri \in app.redirect_uris

is_scope_allowed(app, scope) ==
    \A i \in 1..Len(split(scope)) : split(scope)[i] \in app.allowed_scopes

supports_response_type(app, response_type) == response_type \in app.response_types

supports_grant_type(app, grant_type) == grant_type \in app.grant_types

(***************************************************************************)
(* app/services/application_service.py, app/services/user_service.py       *)
(***************************************************************************)
get_application_by_client_id(active, client_id) ==
    IF client_id \in DOMAIN Applications
    THEN <<[is_active |-> active[client_id]] @@ Applications[client_id]>>
    ELSE <<>>

\* variant: the secret of a confidential client is not compared
validate_client_credentials_any_secret(active, client_id, client_secret) ==
    LET app == get_application_by_client_id(active, client_id) IN
    IF app = <<>> \/ ~app[1].is_active THEN <<>> ELSE app

validate_client_credentials(active, client_id, client_secret) ==
    LET app == get_application_by_client_id(active, client_id) IN
    IF app = <<>> \/ ~app[1].is_active THEN <<>>
    ELSE IF app[1].is_confidential /\ client_secret # app[1].client_secret THEN <<>>
    ELSE app

get_user_by_id(uactive, user_id) ==
    IF user_id \in Users THEN <<[id |-> user_id, is_active |-> uactive[user_id]]>>
    ELSE <<>>

(***************************************************************************)
(* app/models/user.py, UserService.authenticate_user.  A user row is a     *)
(* record; lockout_until is a time in seconds, 0 for NULL; t is the time   *)
(* of the call (datetime.utcnow()).  password_ok is the outcome of         *)
(* verify_password.                                                        *)
(***************************************************************************)
lockout_seconds == 15 * 60

is_locked(user, t) == user.lockout_until # 0 /\ user.lockout_until > t

increment_failed_attempts(user, t) ==
    LET attempts == user.failed_login_attempts + 1 IN
    [user EXCEPT !.failed_login_attempts = attempts,
                 !.lockout_until = IF attempts >= 5 THEN t + lockout_seconds ELSE @]

reset_failed_attempts(user) ==
    [user EXCEPT !.failed_login_attempts = 0, !.lockout_until = 0]

AuthResult(status, detail, user) == [status |-> status, detail |-> detail, user |-> user]

\* user is the row found by username or email, <<>> when there is none; the
\* result carries the row as the commit leaves it
authenticate_user(user, password_ok, t) ==
    IF user = <<>>
    THEN AuthResult(401, "Invalid username or password", user)
    ELSE IF is_locked(user[1], t)
    THEN AuthResult(423, "Account is temporarily locked due to too many failed login attempts", user)
    ELSE IF ~user[1].is_active
    THEN AuthResult(403, "Account is deactivated", user)
    ELSE IF ~password_ok
    THEN AuthResult(401, "Invalid username or password",
                    <<increment_failed_attempts(user[1], t)>>)
    ELSE AuthResult(200, None, <<reset_failed_attempts(user[1])>>)

(***************************************************************************)
(* app/core/security.py: authorization codes                               *)
(***************************************************************************)
create_auth_code(c, n, user_id, client_id, redirect_uri, scope) ==
    LET code == n + 1 IN
    [code  |-> code,
     cache |-> cache_setex(c, AuthCodeKey(code), 600,
                  [user_id |-> user_id, client_id |-> client_id,
                   redirect_uri |-> redirect_uri, scope |-> scope])]

\* variant: the code is read but not deleted
consume_auth_code_keep(c, code) ==
    LET code_data == cache_get(c, AuthCodeKey(code)) IN
    IF code = 0 THEN [data |-> <<>>, cache |-> c]
    ELSE [data |-> code_data, cache |-> c]

consume_auth_code(c, code) ==
    LET code_data == cache_get(c, AuthCodeKey(code)) IN
    IF code = 0 THEN [data |-> <<>>, cache |-> c]
    ELSE IF code_data # <<>>
         THEN [data |-> code_data, cache |-> cache_delete(c, AuthCodeKey(code))]
         ELSE [data |-> <<>>, cache |-> c]

(***************************************************************************)
(* app/services/oauth_service.py: results of the authorization handlers.   *)
(* A raised HTTPException is the result of kind "error".                   *)
(***************************************************************************)
HTTPException(status, detail) ==
    [kind |-> "error", status |-> status, detail |-> detail,
     redirect_uri |-> None, code |-> 0, error |-> None,
     error_description |-> None, state |-> None]

ActionResult(action) ==
    [kind |-> action, status |-> 200, detail |-> None,
     redirect_uri |-> None, code |-> 0, error |-> None,
     error_description |-> None, state |-> None]

CodeIssued(redirect_uri, code, state) ==
    [ActionResult("redirect") EXCEPT !.redirect_uri = redirect_uri,
                                     !.code = code, !.state = state]

AccessDenied(redirect_uri, state) ==
    [ActionResult("redirect") EXCEPT !.redirect_uri = redirect_uri,
                                     !.error = "access_denied",
                                     !.error_description = "User denied the request",
                                     !.state = state]

Unchanged(c, result) == [result |-> result, cache |-> c, minted |-> FALSE]

Minted(new, result) == [result |-> result, cache |-> new.cache, minted |-> TRUE]

\* variant: the redirect_uri is checked before the response_type
handle_authorization_request_uri_first(c, n, aactive, uactive, req, user_id) ==
    LET app  == get_application_by_client_id(aactive, req.client_id)
        user == get_user_by_id(uactive, user_id)
        new  == create_auth_code(c, n, user_id, req.client_id, req.redirect_uri,
                    IF ScopeTruthy(req.scope) THEN req.scope ELSE DefaultScope)
    IN
    IF app = <<>> \/ ~app[1].is_active
    THEN Unchanged(c, HTTPException(400, "Invalid client_id"))
    ELSE IF ~is_redirect_uri_allowed(app[1], req.redirect_uri)
    THEN Unchanged(c, HTTPException(400, "Invalid redirect_uri"))
    ELSE IF ~supports_response_type(app[1], req.response_type)
    THEN Unchanged(c, HTTPException(400, "Unsupported response_type"))
    ELSE IF ScopeTruthy(req.scope) /\ ~is_scope_allowed(app[1], req.scope)
    THEN Unchanged(c, HTTPException(400, "Invalid scope"))
    ELSE IF ~Truthy(user_id)
    THEN Unchanged(c, ActionResult("login_required"))
    ELSE IF user = <<>> \/ ~user[1].is_active
    THEN Unchanged(c, HTTPException(403, "User account is not active"))
    ELSE IF app[1].require_consent
    THEN Unchanged(c, ActionResult("consent_required"))
    ELSE Minted(new, CodeIssued(req.redirect_uri, new.code, req.state))

handle_authorization_request(c, n, aactive, uactive, req, user_id) ==
    LET app  == get_application_by_client_id(aactive, req.client_id)
        user == get_user_by_id(uactive, user_id)
        new  == create_auth_code(c, n, user_id, req.client_id, req.redirect_uri,
                    IF ScopeTruthy(req.scope) THEN req.scope ELSE DefaultScope)
    IN
    IF app = <<>> \/ ~app[1].is_active
    THEN Unchanged(c, HTTPException(400, "Invalid client_id"))
    ELSE IF ~supports_response_type(app[1], req.response_type)
    THEN Unchanged(c, HTTPException(400, "Unsupported response_type"))
    ELSE IF ~is_redirect_uri_allowed(app[1], req.redirect_uri)
    THEN Unchanged(c, HTTPException(400, "Invalid redirect_uri"))
    ELSE IF ScopeTruthy(req.scope) /\ ~is_scope_allowed(app[1], req.scope)
    THEN Unchanged(c, HTTPException(400, "Invalid scope"))
    ELSE IF ~Truthy(user_id)
    THEN Unchanged(c, ActionResult("login_required"))
    ELSE IF user = <<>> \/ ~user[1].is_active
    THEN Unchanged(c, HTTPException(403, "User account is not active"))
    ELSE IF app[1].require_consent
    THEN Unchanged(c, ActionResult("consent_required"))
    ELSE Minted(new, CodeIssued(req.redirect_uri, new.code, req.state))

\* variant: the client is validated before the consent decision is read
handle_consent_client_first(c, n, aactive, uactive, client_id, scope, user_id, consent, redirect_uri, state) ==
    LET app  == get_application_by_client_id(aactive, client_id)
        user == get_user_by_id(uactive, user_id)
        new  == create_auth_code(c, n, user_id, client_id, redirect_uri, scope)
    IN
    IF app = <<>> \/ ~app[1].is_active
    THEN Unchanged(c, HTTPException(400, "Invalid client_id"))
    ELSE IF ~consent
    THEN Unchanged(c, AccessDenied(redirect_uri, state))
    ELSE IF user = <<>> \/ ~user[1].is_active
    THEN Unchanged(c, HTTPException(403, "User account is not active"))
    ELSE Minted(new, CodeIssued(redirect_uri, new.code, state))

handle_consent(c, n, aactive, uactive, client_id, scope, user_id, consent, redirect_uri, state) ==
    LET app  == get_application_by_client_id(aactive, client_id)
        user == get_user_by_id(uactive, user_id)
        new  == create_auth_code(c, n, user_id, client_id, redirect_uri, scope)
    IN
    IF ~consent
    THEN Unchanged(c, AccessDenied(redirect_uri, state))
    ELSE IF app = <<>> \/ ~app[1].is_active
    THEN Unchanged(c, HTTPException(400, "Invalid client_id"))
    ELSE IF user = <<>> \/ ~user[1].is_active
    THEN Unchanged(c, HTTPException(403, "User account is not active"))
    ELSE Minted(new, CodeIssued(redirect_uri, new.code, state))

(***************************************************************************)
(* app/api/oauth.py: the HTTP responses of /authorize and /consent.        *)
(* params is the dict handed to urlencode: parameter name -> value.        *)
(***************************************************************************)
NoParams == [x \in {} |-> None]

RedirectResponse(location, params) ==
    [status |-> 302, kind |-> "redirect", location |-> location, params |-> params]

TemplateResponse(name) ==
    [status |-> 200, kind |-> "page", location |-> name, params |-> NoParams]

ErrorResponse(status, detail) ==
    [status |-> status, kind |-> "error", location |-> None,
     params |-> ("detail" :> detail)]

with_state(params, state) ==
    IF Truthy(state) THEN ("state" :> state) @@ params ELSE params

error_redirect(redirect_uri, state, detail) ==
    RedirectResponse(redirect_uri,
        with_state(("error" :> "server_error") @@ ("error_description" :> detail),
                   state))

authorize_response(req, result) ==
    IF result.kind = "error"
    THEN error_redirect(req.redirect_uri, req.state, result.detail)
    ELSE IF result.kind = "login_required"
    THEN RedirectResponse("/auth/login", NoParams)
    ELSE IF result.kind = "consent_required"
    THEN TemplateResponse("consent.html")
    ELSE RedirectResponse(result.redirect_uri,
             with_state(("code" :> result.code), result.state))

consent_response(req, result) ==
    IF result.kind = "error"
    THEN error_redirect(req.redirect_uri, req.state, result.detail)
    ELSE RedirectResponse(result.redirect_uri,
             with_state(
                 (IF result.code # 0 THEN ("code" :> result.code) ELSE NoParams)
                 @@ (IF Truthy(result.error)
                     THEN ("error" :> result.error)
                          @@ ("error_description" :> result.error_description)
                     ELSE NoParams),
                 result.state))

(***************************************************************************)
(* app/core/security.py: tokens.  A JWT is its payload plus the party that *)
(* signed it; decode_jwt accepts exactly the unexpired tokens signed with  *)
(* the server's private key.  A claim the payload lacks reads as None      *)
(* (dict.get), a lacking jti as 0; create_jwt adds no jti.  The argument t *)
(* is the time of the call (datetime.utcnow()), exp_min is an Optional:    *)
(* <<>> or <<minutes>>.                                                    *)
(***************************************************************************)
Issuer == "SSO Service"

jwt_access_token_expire_minutes == 30

NoToken ==
    [sub |-> None, scope |-> NoneScope, token_type |-> None, iss |-> None,
     sig |-> None, exp |-> 0, iat |-> 0, jti |-> 0]

ForgedRefreshToken ==
    [sub |-> "u1", scope |-> RefreshScope, token_type |-> "access_token",
     iss |-> Issuer, sig |-> "forged", exp |-> 0, iat |-> 0, jti |-> 0]

create_jwt(payload, exp_min, t) ==
    [exp |-> t + 60 * (IF exp_min = <<>> THEN jwt_access_token_expire_minutes
                                         ELSE exp_min[1]),
     iat |-> t, iss |-> Issuer, sig |-> "server"] @@ payload @@ [jti |-> 0]

decode_jwt(token, t) ==
    IF token.sig = "server" /\ token.exp >= t THEN <<token>> ELSE <<>>

create_access_token(user_id, scope, t) ==
    create_jwt([sub |-> user_id, scope |-> scope, token_type |-> "access_token"],
               <<>>, t)

create_id_token(user, t) ==
    create_jwt([sub |-> user.id, scope |-> NoneScope, token_type |-> "id_token"],
               <<>>, t)

\* Python's `word in scope` on strings is a substring test: the word occurs
\* in the scope string when it is one of its elements or a proper substring
\* of one.  ProperSubstrings lists the pairs of the scope vocabulary used
\* here in which the first word is a proper substring of the second.
ProperSubstrings == {<<"openid", "openid_ext">>}

Contains(scope, word) ==
    \E i \in 1..Len(scope) :
        scope[i] = word \/ <<word, scope[i]>> \in ProperSubstrings

(***************************************************************************)
(* app/services/oauth_service.py: the token endpoint                       *)
(***************************************************************************)
TokenError(status, detail) ==
    [status |-> status, detail |-> detail, access_token |-> NoToken,
     token_type |-> None, expires_in |-> 0, refresh_token |-> NoToken,
     id_token |-> NoToken, scope |-> NoneScope]

TokenResponse(access_token, expires_in, refresh_token, id_token, scope) ==
    [status |-> 200, detail |-> None, access_token |-> access_token,
     token_type |-> "Bearer", expires_in |-> expires_in,
     refresh_token |-> refresh_token, id_token |-> id_token, scope |-> scope]

\* variant: the redirect_uri of the token request is not compared
redirect_uri_mismatch_skipped(code_data, req) == FALSE

redirect_uri_mismatch(code_data, req) ==
    Truthy(req.redirect_uri) /\ code_data.redirect_uri # req.redirect_uri

\* _handle_authorization_code_grant from the client_id check on, for the
\* code_data that consume_auth_code returned
issue_for_code(uactive, code_data, req, app, t) ==
    LET user  == get_user_by_id(uactive, code_data.user_id)
        scope == code_data.scope
    IN
    IF code_data.client_id # req.client_id
    THEN TokenError(400, "Client ID mismatch")
    ELSE IF redirect_uri_mismatch(code_data, req)
    THEN TokenError(400, "Redirect URI mismatch")
    ELSE IF user = <<>> \/ ~user[1].is_active
    THEN TokenError(403, "User account is not active")
    ELSE TokenResponse(
             create_access_token(user[1].id, scope, t),
             app.access_token_lifetime,
             IF Contains(scope, "offline_access")
             THEN create_access_token(user[1].id, RefreshScope, t) ELSE NoToken,
             IF Contains(scope, "openid") THEN create_id_token(user[1], t) ELSE NoToken,
             scope)

handle_authorization_code_grant(c, uactive, req, app) ==
    LET consumed == consume_auth_code(c, req.code) IN
    IF req.code = 0
    THEN [response |-> TokenError(400, "Missing authorization code"), cache |-> c]
    ELSE IF consumed.data = <<>>
    THEN [response |-> TokenError(400, "Invalid or expired authorization code"),
          cache |-> consumed.cache]
    ELSE [response |-> issue_for_code(uactive, consumed.data[1], req, app, c.now),
          cache |-> consumed.cache]

handle_refresh_token_grant(uactive, req, app, t) ==
    LET payload == decode_jwt(req.refresh_token, t)
        user    == get_user_by_id(uactive, payload[1].sub)
        scope   == IF ScopeTruthy(req.scope) THEN req.scope ELSE DefaultScope
    IN
    IF req.refresh_token = NoToken
    THEN TokenError(400, "Missing refresh token")
    ELSE IF payload = <<>>
    THEN TokenError(400, "Invalid refresh token")
    ELSE IF payload[1].scope # RefreshScope
    THEN TokenError(400, "Invalid refresh token")
    ELSE IF ~Truthy(payload[1].sub)
    THEN TokenError(400, "Invalid refresh token")
    ELSE IF user = <<>> \/ ~user[1].is_active
    THEN TokenError(400, "Invalid refresh token")
    ELSE TokenResponse(
             create_access_token(payload[1].sub, scope, t),
             app.access_token_lifetime,
             NoToken,
             IF Contains(scope, "openid") THEN create_id_token(user[1], t) ELSE NoToken,
             scope)

handle_client_credentials_grant(req, app, t) ==
    LET scope == IF ScopeTruthy(req.scope) THEN req.scope ELSE ClientScope IN
    TokenResponse(create_access_token(app.client_id, scope, t),
                  app.access_token_lifetime, NoToken, NoToken, scope)

\* variant: an inactive client is told so, a missing one is not
handle_token_request_inactive_told(c, aactive, uactive, req) ==
    LET app      == validate_client_credentials(aactive, req.client_id, req.client_secret)
        inactive == req.client_id \in DOMAIN aactive /\ ~aactive[req.client_id]
    IN
    IF app = <<>> /\ inactive
    THEN [response |-> TokenError(403, "Client is inactive"), cache |-> c]
    ELSE IF app = <<>>
    THEN [response |-> TokenError(401, "Invalid client credentials"), cache |-> c]
    ELSE IF req.grant_type = "authorization_code"
    THEN handle_authorization_code_grant(c, uactive, req, app[1])
    ELSE IF req.grant_type = "refresh_token"
    THEN [response |-> handle_refresh_token_grant(uactive, req, app[1], c.now),
          cache |-> c]
    ELSE IF req.grant_type = "client_credentials"
    THEN [response |-> handle_client_credentials_grant(req, app[1], c.now),
          cache |-> c]
    ELSE [response |-> TokenError(400, "Unsupported grant_type"), cache |-> c]

handle_token_request(c, aactive, uactive, req) ==
    LET app == validate_client_credentials(aactive, req.client_id, req.client_secret) IN
    IF app = <<>>
    THEN [response |-> TokenError(401, "Invalid client credentials"), cache |-> c]
    ELSE IF req.grant_type = "authorization_code"
    THEN handle_authorization_code_grant(c, uactive, req, app[1])
    ELSE IF req.grant_type = "refresh_token"
    THEN [response |-> handle_refresh_token_grant(uactive, req, app[1], c.now),
          cache |-> c]
    ELSE IF req.grant_type = "client_credentials"
    THEN [response |-> handle_client_credentials_grant(req, app[1], c.now),
          cache |-> c]
    ELSE [response |-> TokenError(400, "Unsupported grant_type"), cache |-> c]

(***************************************************************************)
(* app/services/oauth_service.py: get_user_info.  The handler's            *)
(* `except Exception` also catches the HTTPExceptions raised inside it, so *)
(* every failure leaves as 401 'Invalid access token'.                     *)
(***************************************************************************)
NoClaims == [x \in {} |-> None]

UserInfoResponse(status, detail, claims) ==
    [status |-> status, detail |-> detail, claims |-> claims]

get_user_info(uactive, access_token, t) ==
    LET payload == decode_jwt(access_token, t)
        user    == get_user_by_id(uactive, payload[1].sub)
        scope   == payload[1].scope
    IN
    IF payload = <<>>
    THEN UserInfoResponse(401, "Invalid access token", NoClaims)
    ELSE IF payload[1].token_type # "access_token"
    THEN UserInfoResponse(401, "Invalid access token", NoClaims)
    ELSE IF ~Truthy(payload[1].sub)
    THEN UserInfoResponse(401, "Invalid access token", NoClaims)
    ELSE IF user = <<>> \/ ~user[1].is_active
    THEN UserInfoResponse(401, "Invalid access token", NoClaims)
    ELSE UserInfoResponse(200, None,
             ("sub" :> user[1].id)
             @@ (IF Contains(scope, "profile")
                 THEN [name |-> "full_name", username |-> "username",
                       picture |-> "profile_picture"]
                 ELSE NoClaims)
             @@ (IF Contains(scope, "email")
                 THEN [email |-> "email", email_verified |-> "is_verified"]
                 ELSE NoClaims))

(***************************************************************************)
(* app/core/security.py: sessions.  Session id 0 stands for no cookie.     *)
(***************************************************************************)
SessionKey(session_id) == <<"session", session_id>>

create_session(c, n, user_id) ==
    LET session_id == n + 1 IN
    [session_id |-> session_id,
     cache |-> cache_setex(c, SessionKey(session_id), 86400, [user_id |-> user_id])]

get_session(c, session_id) ==
    IF session_id = 0 THEN <<>> ELSE cache_get(c, SessionKey(session_id))

delete_session(c, session_id) == cache_delete(c, SessionKey(session_id))

(***************************************************************************)
(* Helpers that app/api/v1/auth.py imports from app/core/security.py and   *)
(* that security.py does not define; they follow the specification of the  *)
(* token codec and of the secret store's refresh_token and blacklist       *)
(* namespaces.                                                             *)
(***************************************************************************)
jwt_refresh_token_expire_days == 30

create_refresh_token(user_id, jti, t) ==
    [jti |-> jti]
    @@ create_jwt([sub |-> user_id, scope |-> NoneScope, token_type |-> "refresh_token"],
                  <<24 * 60 * jwt_refresh_token_expire_days>>, t)

store_refresh_token(c, user_id, refresh_token, jti) ==
    cache_setex(c, <<"refresh_token", jti>>,
                24 * 3600 * jwt_refresh_token_expire_days, [user_id |-> user_id])

blacklist_token(c, jti, remaining_time) ==
    cache_setex(c, <<"blacklist", jti>>, remaining_time, [revoked |-> TRUE])

RECURSIVE delete_all(_, _)
delete_all(c, keys) ==
    IF keys = {} THEN c
    ELSE LET key == CHOOSE k \in keys : TRUE
         IN delete_all(cache_delete(c, key), keys \ {key})

revoke_all_user_tokens(c, user_id) ==
    delete_all(c, {key \in DOMAIN c.data :
                      key[1] = "refresh_token" /\ c.data[key].user_id = user_id})

(***************************************************************************)
(* app/api/v1/auth.py: get_current_user, require_auth, login, logout.      *)
(* credentials is the bearer token of the request, NoToken for none.       *)
(***************************************************************************)
get_current_user(c, session_id, credentials, t) ==
    LET session_data == get_session(c, session_id)
        payload      == decode_jwt(credentials, t)
        from_session == IF session_data # <<>> THEN session_data[1].user_id ELSE None
        user_id      == IF Truthy(from_session) THEN from_session
                        ELSE IF credentials # NoToken /\ payload # <<>>
                                /\ payload[1].token_type = "access_token"
                             THEN payload[1].sub
                             ELSE None
    IN
    IF ~Truthy(user_id) THEN <<>> ELSE
    IF user_id \in Users THEN <<[id |-> user_id]>> ELSE <<>>

AuthResponse(status, detail, user, access_token, refresh_token) ==
    [status |-> status, detail |-> detail, user |-> user,
     access_token |-> access_token, refresh_token |-> refresh_token]

\* GET /me: require_auth in front of the handler
me(c, session_id, credentials, t) ==
    LET user == get_current_user(c, session_id, credentials, t) IN
    IF user = <<>>
    THEN AuthResponse(401, "Authentication required", None, NoToken, NoToken)
    ELSE AuthResponse(200, None, user[1].id, NoToken, NoToken)

\* POST /login from the point where authenticate_user returned the user
login(c, n, jtis, user_id, is_api_client, t) ==
    LET session       == create_session(c, n, user_id)
        access_token  == create_access_token(user_id, DefaultScope, t)
        refresh_token == create_refresh_token(user_id, jtis + 1, t)
        refresh_jti   == decode_jwt(refresh_token, t)[1].jti
    IN
    IF is_api_client
    THEN [response |-> AuthResponse(200, None, user_id, access_token, refresh_token),
          cache |-> IF refresh_jti # 0
                    THEN store_refresh_token(session.cache, user_id, refresh_token,
                                             refresh_jti)
                    ELSE session.cache,
          session_id |-> session.session_id, set_cookie |-> FALSE]
    ELSE [response |-> AuthResponse(302, None, user_id, NoToken, NoToken),
          cache |-> session.cache,
          session_id |-> session.session_id, set_cookie |-> TRUE]

\* POST /logout
logout(c, session_id, credentials, t) ==
    LET user        == get_current_user(c, session_id, credentials, t)
        c1          == IF session_id # 0 THEN delete_session(c, session_id) ELSE c
        payload     == decode_jwt(credentials, t)
        jti         == payload[1].jti
        exp         == payload[1].exp
        c2          == IF jti # 0 /\ exp # 0 /\ exp - t > 0
                       THEN blacklist_token(c1, jti, exp - t) ELSE c1
        c3          == IF user # <<>> THEN revoke_all_user_tokens(c2, user[1].id) ELSE c2
    IN
    IF credentials # NoToken /\ payload # <<>> THEN c3 ELSE c1

(***************************************************************************)
(* app/core/security.py: check_rate_limit.  The counter is stored as the   *)
(* decimal string of its value.                                            *)
(***************************************************************************)
create_rate_limit_key(identifier, endpoint) == <<"rate_limit", identifier, endpoint>>

str(n) == [digits |-> n]

int(text) == text.digits

\* the call handled without interruption
check_rate_limit(c, identifier, endpoint, limit, window) ==
    LET key     == create_rate_limit_key(identifier, endpoint)
        current == cache_get(c, key)
    IN
    IF current = <<>>
    THEN [allowed |-> TRUE, cache |-> cache_setex(c, key, window, str(1))]
    ELSE IF int(current[1]) >= limit
    THEN [allowed |-> FALSE, cache |-> c]
    ELSE [allowed |-> TRUE,
          cache |-> cache_set(c, key, str(int(current[1]) + 1), window)]

(***************************************************************************)
(* Requests.  The front-channel specification explores /authorize and      *)
(* /consent over every combination of the values below; the token          *)
(* specifications explore /token against codes minted by well-formed       *)
(* front-channel requests.                                                 *)
(***************************************************************************)
ClientIds == {"c1", "c2", "cX"}

ResponseTypes == {"code", "token"}

RedirectUris == {CB, EVIL}

OfflineScope == <<"openid", " ", "offline_access">>

RequestScopes == {EmptyScope, <<"openid">>, OfflineScope}

States == {None, "", "xyz123"}

SessionUsers == {None, "u1"}

Codes == 1..MaxCodes

Procs == {"p1", "p2"}

AuthorizeRequest(response_type, client_id, redirect_uri, scope, state, code_challenge) ==
    [response_type |-> response_type, client_id |-> client_id,
     redirect_uri |-> redirect_uri, scope |-> scope, state |-> state,
     code_challenge |-> code_challenge,
     code_challenge_method |-> IF code_challenge = None THEN None ELSE "plain"]

ConsentRequest(client_id, scope, redirect_uri, state, consent) ==
    [client_id |-> client_id, scope |-> scope, redirect_uri |-> redirect_uri,
     state |-> state, consent |-> consent]

FrontAuthorizeRequests ==
    {AuthorizeRequest(rt, cid, uri, scope, state, None) :
        rt \in ResponseTypes, cid \in ClientIds, uri \in RedirectUris,
        scope \in RequestScopes, state \in States}

\* an empty form field reaches the endpoint as a missing one, so the state of
\* a consent submission is None or non-empty; scope is a required field
FrontConsentRequests ==
    {ConsentRequest(cid, scope, uri, state, consent) :
        cid \in ClientIds, scope \in RequestScopes \ {EmptyScope},
        uri \in RedirectUris, state \in States \ {""}, consent \in BOOLEAN}

GrantAuthorizeRequests ==
    {AuthorizeRequest("code", "c2", CB, OfflineScope, None, challenge) :
        challenge \in {None, "ch1"}}

GrantConsentRequests ==
    {ConsentRequest("c1", <<"openid">>, uri, None, TRUE) : uri \in RedirectUris}
    \cup {ConsentRequest("c1", <<"openid_ext">>, CB, None, TRUE)}

TokenRequest(grant_type, code, redirect_uri, client_id, client_secret, code_verifier, refresh_token, scope) ==
    [grant_type |-> grant_type, code |-> code, redirect_uri |-> redirect_uri,
     client_id |-> client_id, client_secret |-> client_secret,
     code_verifier |-> code_verifier, refresh_token |-> refresh_token,
     scope |-> scope]

\* <<client_id, client_secret>> pairs presented at /token
Credentials ==
    {<<"c1", "s1">>, <<"c1", "bad">>, <<"c1", None>>, <<"c2", None>>,
     <<"c2", "bad">>, <<"cX", None>>}

CodeRequests ==
    {TokenRequest("authorization_code", code, uri, cred[1], cred[2], verifier,
                  NoToken, NoneScope) :
        code \in 0..MaxCodes, uri \in RedirectUris \cup {None},
        cred \in Credentials, verifier \in {None, "ch1"}}

RefreshRequests(held) ==
    {TokenRequest("refresh_token", 0, None, cred[1], cred[2], None, token, scope) :
        cred \in Credentials, token \in {NoToken, ForgedRefreshToken, held},
        scope \in {NoneScope, <<"openid">>}}

OtherRequests ==
    {TokenRequest(grant, 0, None, cred[1], cred[2], None, NoToken, NoneScope) :
        grant \in {"client_credentials", "password"}, cred \in Credentials}

\* two workers redeem a code with the credentials and redirect_uri it was
\* issued for
RacingRequests ==
    {TokenRequest("authorization_code", code, CB, cred[1], cred[2], None,
                  NoToken, NoneScope) :
        code \in Codes, cred \in {<<"c1", "s1">>, <<"c2", None>>}}

(***************************************************************************)
(* Initial state: an empty store, both clients and the user active.        *)
(***************************************************************************)
NoRequest == [op |-> "none"]

\* no refresh token is kept
NoGrant == [client_id |-> None, scope |-> NoneScope]

\* the Redis server as the request in hand sees it
Redis == [up |-> redis_up, now |-> now, data |-> cache, expires |-> expires]

\* the keys that Redis itself removes: they reached their TTL
Evict(f, keys) == [k \in (DOMAIN f) \ keys |-> f[k]]

Idle == [req |-> NoRequest, app |-> <<>>, code_data |-> <<>>, response |-> NoRequest]

RateIdle == [count |-> 0, failed |-> FALSE, result |-> FALSE]

Init ==
    /\ cache = [k \in {} |-> None]
    /\ expires = [k \in {} |-> 0]
    /\ redis_up = TRUE
    /\ now = 0
    /\ next_code = 0
    /\ app_active = [cid \in DOMAIN Applications |-> TRUE]
    /\ user_active = [u \in Users |-> TRUE]
    /\ challenge_of = [code \in Codes |-> None]
    /\ granted = [code \in Codes |-> 0]
    /\ wallet = NoToken
    /\ wallet_kind = None
    /\ wallet_grant = NoGrant
    /\ last = NoRequest
    /\ pc = [p \in Procs |-> "idle"]
    /\ local = [p \in Procs |-> Idle]
    /\ next_session = 0
    /\ next_jti = 0
    /\ cookie = 0
    /\ logged_out = {}
    /\ failed_login_attempts = [u \in Users |-> 0]
    /\ lockout_until = [u \in Users |-> 0]
    /\ fresh_failures = [u \in Users |-> 0]
    /\ session_log = [sid \in 1..MaxSessions |-> [user_id |-> None, ended |-> FALSE]]
    /\ rl_pc = [p \in Procs |-> "idle"]
    /\ rl_local = [p \in Procs |-> RateIdle]
    /\ admitted = 0
    /\ window_start = 0
    /\ outage = FALSE

(***************************************************************************)
(* Bookkeeping of the history variables                                    *)
(***************************************************************************)
\* the code_challenge of a request is remembered while its code is in the store
Forget(challenges, c) ==
    [code \in Codes |->
        IF AuthCodeKey(code) \in DOMAIN c THEN challenges[code] ELSE None]

\* the sessions behind the keys are over: logged out or expired
Ended(log, keys) ==
    [sid \in DOMAIN log |->
        IF SessionKey(sid) \in keys THEN [log[sid] EXCEPT !.ended = TRUE] ELSE log[sid]]

\* the fields of a response that hold a token the client may keep for later
Kept(response) ==
    {k \in {"access_token", "refresh_token", "id_token"} \cap DOMAIN response :
        response[k] # NoToken}

Keep(response, client_id) ==
    \/ wallet' = wallet /\ wallet_kind' = wallet_kind /\ wallet_grant' = wallet_grant
    \/ \E k \in Kept(response) :
           /\ wallet' = response[k]
           /\ wallet_kind' = k
           /\ wallet_grant' = IF k = "refresh_token" /\ "scope" \in DOMAIN response
                               THEN [client_id |-> client_id, scope |-> response.scope]
                               ELSE NoGrant

(***************************************************************************)
(* Actions: one per endpoint.  A request is taken when the previous        *)
(* response has been sent (Respond).                                       *)
(***************************************************************************)
\* GET /authorize
Authorize(req, user_id) ==
    LET out == handle_authorization_request(Redis, next_code, app_active,
                                            user_active, req, user_id) IN
    /\ last = NoRequest
    /\ out.minted => next_code < MaxCodes
    /\ cache' = out.cache.data
    /\ expires' = out.cache.expires
    /\ next_code' = IF out.minted THEN next_code + 1 ELSE next_code
    /\ challenge_of' = IF out.minted
                       THEN [challenge_of EXCEPT ![next_code + 1] = req.code_challenge]
                       ELSE challenge_of
    /\ last' = [op |-> "authorize", req |-> req, user_id |-> user_id,
                result |-> out.result, minted |-> out.minted,
                response |-> authorize_response(req, out.result)]
    /\ UNCHANGED <<redis_up, now, app_active, user_active, granted, wallet, wallet_kind, wallet_grant, pc, local,
                   auth_vars, rate_vars>>

\* POST /consent
Consent(req, user_id) ==
    LET out == handle_consent(Redis, next_code, app_active, user_active,
                              req.client_id, req.scope, user_id, req.consent,
                              req.redirect_uri, req.state) IN
    IF ~Truthy(user_id)
    THEN /\ last = NoRequest
         /\ last' = [op |-> "consent", req |-> req, user_id |-> user_id,
                     result |-> HTTPException(401, "Authentication required"),
                     minted |-> FALSE,
                     response |-> ErrorResponse(401, "Authentication required")]
         /\ UNCHANGED <<cache, expires, redis_up, now, next_code, challenge_of,
                        app_active, user_active, granted, wallet, wallet_kind, wallet_grant, pc, local,
                   auth_vars, rate_vars>>
    ELSE /\ last = NoRequest
         /\ out.minted => next_code < MaxCodes
         /\ cache' = out.cache.data
         /\ expires' = out.cache.expires
         /\ next_code' = IF out.minted THEN next_code + 1 ELSE next_code
         /\ last' = [op |-> "consent", req |-> req, user_id |-> user_id,
                     result |-> out.result, minted |-> out.minted,
                     response |-> consent_response(req, out.result)]
         /\ UNCHANGED <<redis_up, now, challenge_of, app_active, user_active,
                        granted, wallet, wallet_kind, wallet_grant, pc, local,
                   auth_vars, rate_vars>>

\* POST /token, handled without interruption
Token(req) ==
    LET out == handle_token_request(Redis, app_active, user_active, req) IN
    /\ last = NoRequest
    /\ cache' = out.cache.data
    /\ expires' = out.cache.expires
    /\ challenge_of' = Forget(challenge_of, out.cache.data)
    /\ granted' = IF req.grant_type = "authorization_code" /\ out.response.status = 200
                  THEN [granted EXCEPT ![req.code] = @ + 1]
                  ELSE granted
    /\ Keep(out.response, req.client_id)
    /\ last' = [op |-> "token", req |-> req, response |-> out.response]
    /\ UNCHANGED <<redis_up, now, next_code, app_active, user_active, pc, local,
                   auth_vars, rate_vars>>

\* a key reaches its TTL (600 s for authorization codes)
Expire(key) ==
    /\ last = NoRequest
    /\ \A p \in Procs : pc[p] = "idle"
    /\ key \in DOMAIN cache
    /\ cache' = Evict(cache, {key})
    /\ expires' = Evict(expires, {key})
    /\ challenge_of' = Forget(challenge_of, cache')
    /\ session_log' = Ended(session_log, {key})
    /\ UNCHANGED <<redis_up, now, last, next_code, app_active, user_active,
                   granted, wallet, wallet_kind, wallet_grant, pc, local,
                   next_session, next_jti, cookie, logged_out, lock_vars, rate_vars>>

\* ApplicationService.deactivate_application / activate_application
SetApplicationActive(client_id, value) ==
    /\ last = NoRequest
    /\ app_active[client_id] # value
    /\ app_active' = [app_active EXCEPT ![client_id] = value]
    /\ UNCHANGED <<last, cache, expires, redis_up, now, next_code, user_active,
                   challenge_of, granted, wallet, wallet_kind, wallet_grant, pc, local,
                   auth_vars, rate_vars>>

\* UserService.deactivate_user / activate_user
SetUserActive(user_id, value) ==
    /\ last = NoRequest
    /\ user_active[user_id] # value
    /\ user_active' = [user_active EXCEPT ![user_id] = value]
    /\ UNCHANGED <<last, cache, expires, redis_up, now, next_code, app_active,
                   challenge_of, granted, wallet, wallet_kind, wallet_grant, pc, local,
                   auth_vars, rate_vars>>

\* the response of the request in hand is sent; the server takes the next one
Respond ==
    /\ last # NoRequest
    /\ last' = NoRequest
    /\ UNCHANGED <<cache, expires, redis_up, now, next_code, app_active,
                   user_active, challenge_of, granted, wallet, wallet_kind, wallet_grant, pc, local,
                   auth_vars, rate_vars>>

\* Redis goes down or comes back
SetRedisUp(value) ==
    /\ last = NoRequest
    /\ redis_up # value
    /\ redis_up' = value
    /\ UNCHANGED <<last, cache, expires, now, next_code, app_active, user_active,
                   challenge_of, granted, wallet, wallet_kind, wallet_grant, pc, local,
                   auth_vars, rate_vars>>

\* GET /userinfo with a bearer token, NoToken for a request without one
UserInfo(access_token) ==
    /\ last = NoRequest
    /\ last' = [op |-> "userinfo", session_id |-> 0, credentials |-> access_token,
                kind |-> IF access_token = wallet THEN wallet_kind ELSE None,
                response |->
                    IF access_token = NoToken
                    THEN UserInfoResponse(401, "Missing or invalid authorization header",
                                          NoClaims)
                    ELSE get_user_info(user_active, access_token, now)]
    /\ UNCHANGED <<cache, expires, redis_up, now, next_code, app_active,
                   user_active, challenge_of, granted, wallet, wallet_kind, wallet_grant, pc,
                   local, auth_vars, rate_vars>>

\* the users row that get_user_by_username / get_user_by_email find
UserRow(username) ==
    IF username \in Users
    THEN <<[id |-> username, is_active |-> user_active[username],
            failed_login_attempts |-> failed_login_attempts[username],
            lockout_until |-> lockout_until[username]]>>
    ELSE <<>>

\* UserService.authenticate_user, as POST /login calls it
Authenticate(username, password_ok) ==
    LET auth == authenticate_user(UserRow(username), password_ok, now)
        counted == auth.user # <<>> /\ auth.user # UserRow(username)
    IN
    /\ last = NoRequest
    /\ IF auth.user = <<>>
       THEN UNCHANGED lock_vars
       ELSE /\ failed_login_attempts' = [failed_login_attempts EXCEPT
                                             ![username] = auth.user[1].failed_login_attempts]
            /\ lockout_until' = [lockout_until EXCEPT ![username] = auth.user[1].lockout_until]
            /\ fresh_failures' = [fresh_failures EXCEPT ![username] =
                                     IF auth.status = 200 THEN 0
                                     ELSE IF counted THEN @ + 1 ELSE @]
    /\ last' = [op |-> "authenticate", username |-> username,
                password_ok |-> password_ok,
                response |-> [status |-> auth.status, detail |-> auth.detail]]
    /\ UNCHANGED <<cache, expires, redis_up, now, next_code, app_active,
                   user_active, challenge_of, granted, wallet, wallet_kind, wallet_grant,
                   pc, local, next_session, next_jti, cookie, logged_out,
                   session_log, rate_vars>>

\* time passes until the lockout of the user is over; Redis removes the keys
\* that reached their TTL meanwhile
LockoutElapses(username) ==
    LET due == {key \in DOMAIN expires : expires[key] <= lockout_until[username]} IN
    /\ last = NoRequest
    /\ lockout_until[username] > now
    /\ now < MaxLockouts * lockout_seconds
    /\ now' = lockout_until[username]
    /\ cache' = Evict(cache, due)
    /\ expires' = Evict(expires, due)
    /\ challenge_of' = Forget(challenge_of, cache')
    /\ session_log' = Ended(session_log, due)
    /\ fresh_failures' = [fresh_failures EXCEPT ![username] = 0]
    /\ UNCHANGED <<redis_up, next_code, app_active, user_active, granted,
                   wallet, wallet_kind, wallet_grant, last, pc, local, next_session,
                   next_jti, cookie, logged_out, failed_login_attempts,
                   lockout_until, rate_vars>>

\* POST /login with the right password of an active user
Login(user_id, is_api_client) ==
    LET out  == login(Redis, next_session, next_jti, user_id, is_api_client, now)
        auth == authenticate_user(UserRow(user_id), TRUE, now)
    IN
    /\ last = NoRequest
    /\ auth.status = 200
    /\ next_session < MaxSessions
    /\ failed_login_attempts' = [failed_login_attempts EXCEPT ![user_id] = auth.user[1].failed_login_attempts]
    /\ lockout_until' = [lockout_until EXCEPT ![user_id] = auth.user[1].lockout_until]
    /\ fresh_failures' = [fresh_failures EXCEPT ![user_id] = 0]
    /\ cache' = out.cache.data
    /\ expires' = out.cache.expires
    /\ next_session' = next_session + 1
    /\ next_jti' = IF is_api_client THEN next_jti + 1 ELSE next_jti
    /\ cookie' = IF out.set_cookie THEN out.session_id ELSE cookie
    /\ session_log' = [session_log EXCEPT ![out.session_id].user_id = user_id]
    /\ Keep(out.response, None)
    /\ last' = [op |-> "login", session_id |-> 0, credentials |-> NoToken,
                kind |-> None, response |-> out.response]
    /\ UNCHANGED <<redis_up, now, next_code, app_active, user_active,
                   challenge_of, granted, pc, local, logged_out, rate_vars>>

\* POST /logout with the cookie and the bearer token that the request carries
Logout(session_id, credentials, is_api_client) ==
    LET out == logout(Redis, session_id, credentials, now) IN
    /\ last = NoRequest
    /\ cache' = out.data
    /\ expires' = out.expires
    /\ cookie' = IF is_api_client THEN cookie ELSE 0
    /\ logged_out' = logged_out \cup ({credentials} \ {NoToken})
    /\ session_log' = Ended(session_log, {SessionKey(session_id)})
    /\ last' = [op |-> "logout", session_id |-> session_id,
                credentials |-> credentials,
                kind |-> IF credentials = wallet THEN wallet_kind ELSE None,
                response |-> IF is_api_client
                             THEN AuthResponse(200, "Logged out successfully", None,
                                               NoToken, NoToken)
                             ELSE AuthResponse(302, None, None, NoToken, NoToken)]
    /\ UNCHANGED <<redis_up, now, next_code, app_active, user_active,
                   challenge_of, granted, wallet, wallet_kind, wallet_grant, pc, local,
                   next_session, next_jti, lock_vars, rate_vars>>

\* GET /me with the cookie and the bearer token that the request carries
Me(session_id, credentials) ==
    /\ last = NoRequest
    /\ last' = [op |-> "me", session_id |-> session_id, credentials |-> credentials,
                kind |-> IF credentials = wallet THEN wallet_kind ELSE None,
                response |-> me(Redis, session_id, credentials, now)]
    /\ UNCHANGED <<cache, expires, redis_up, now, next_code, app_active,
                   user_active, challenge_of, granted, wallet, wallet_kind, wallet_grant, pc,
                   local, auth_vars, rate_vars>>

(***************************************************************************)
(* check_rate_limit on worker process p, one Redis command at a time, for  *)
(* the requests of one client address at one endpoint.                     *)
(***************************************************************************)
RateKey == create_rate_limit_key("10.0.0.1", "token")

\* cache.get (security.py line 153) and the comparison with the limit
CheckRateLimitGet(p) ==
    LET current == cache_get(Redis, RateKey) IN
    /\ rl_pc[p] = "idle"
    /\ admitted <= RateLimit
    /\ outage' = (outage \/ ~redis_up)
    /\ IF current = <<>>
       THEN /\ rl_pc' = [rl_pc EXCEPT ![p] = "setex"]
            /\ rl_local' = [rl_local EXCEPT ![p] = [RateIdle EXCEPT !.failed = ~redis_up]]
       ELSE IF int(current[1]) >= RateLimit
       THEN /\ rl_pc' = [rl_pc EXCEPT ![p] = "done"]
            /\ rl_local' = [rl_local EXCEPT ![p] =
                                [RateIdle EXCEPT !.count = int(current[1])]]
       ELSE /\ rl_pc' = [rl_pc EXCEPT ![p] = "set"]
            /\ rl_local' = [rl_local EXCEPT ![p] =
                                [RateIdle EXCEPT !.count = int(current[1])]]
    /\ UNCHANGED <<cache, expires, redis_up, now, next_code, app_active,
                   user_active, challenge_of, granted, wallet, wallet_kind, wallet_grant, last,
                   pc, local, auth_vars, admitted, window_start>>

\* cache.setex(key, window, "1") and return True (lines 156-157)
CheckRateLimitSetex(p) ==
    LET c == cache_setex(Redis, RateKey, RateWindow, str(1)) IN
    /\ rl_pc[p] = "setex"
    /\ cache' = c.data
    /\ expires' = c.expires
    /\ outage' = (outage \/ ~redis_up)
    /\ admitted' = admitted + 1
    /\ window_start' = IF redis_up /\ RateKey \notin DOMAIN cache
                       THEN now ELSE window_start
    /\ rl_pc' = [rl_pc EXCEPT ![p] = "done"]
    /\ rl_local' = [rl_local EXCEPT ![p].result = TRUE,
                                    ![p].failed = (@ \/ ~redis_up)]
    /\ UNCHANGED <<redis_up, now, next_code, app_active, user_active,
                   challenge_of, granted, wallet, wallet_kind, wallet_grant, last, pc, local,
                   auth_vars>>

\* cache.set(key, str(count + 1), ex=window) and return True (lines 165-166)
CheckRateLimitSet(p) ==
    LET c == cache_set(Redis, RateKey, str(rl_local[p].count + 1), RateWindow) IN
    /\ rl_pc[p] = "set"
    /\ cache' = c.data
    /\ expires' = c.expires
    /\ outage' = (outage \/ ~redis_up)
    /\ admitted' = admitted + 1
    /\ rl_pc' = [rl_pc EXCEPT ![p] = "done"]
    /\ rl_local' = [rl_local EXCEPT ![p].result = TRUE,
                                    ![p].failed = (@ \/ ~redis_up)]
    /\ UNCHANGED <<redis_up, now, next_code, app_active, user_active,
                   challenge_of, granted, wallet, wallet_kind, wallet_grant, last, pc, local,
                   auth_vars, window_start>>

\* the caller has the result; the worker takes the next request
CheckRateLimitReturn(p) ==
    /\ rl_pc[p] = "done"
    /\ rl_pc' = [rl_pc EXCEPT ![p] = "idle"]
    /\ rl_local' = [rl_local EXCEPT ![p] = RateIdle]
    /\ UNCHANGED <<cache, expires, redis_up, now, next_code, app_active,
                   user_active, challenge_of, granted, wallet, wallet_kind, wallet_grant, last,
                   pc, local, auth_vars, admitted, window_start, outage>>

\* one second passes; Redis removes the keys that reached their TTL
Tick ==
    LET due == {key \in DOMAIN expires : expires[key] <= now + 1} IN
    /\ now < MaxTime
    /\ now' = now + 1
    /\ cache' = Evict(cache, due)
    /\ expires' = Evict(expires, due)
    /\ challenge_of' = Forget(challenge_of, cache')
    /\ admitted' = IF RateKey \in due THEN 0 ELSE admitted
    /\ session_log' = Ended(session_log, due)
    /\ UNCHANGED <<redis_up, next_code, app_active, user_active, granted,
                   wallet, wallet_kind, wallet_grant, last, pc, local, next_session, next_jti,
                   cookie, logged_out, lock_vars, rl_pc, rl_local, window_start, outage>>

(***************************************************************************)
(* POST /token for the authorization_code grant on worker process p, one   *)
(* Redis command at a time: consume_auth_code is a GET followed by a DEL,  *)
(* and other workers share the same Redis.                                 *)
(***************************************************************************)
Finish(p, req, response) ==
    /\ pc' = [pc EXCEPT ![p] = "done"]
    /\ local' = [local EXCEPT ![p] = [Idle EXCEPT !.req = req, !.response = response]]

\* validate the client, then cache.get (security.py line 126)
TokenReceive(p, req) ==
    LET app       == validate_client_credentials(app_active, req.client_id,
                                                 req.client_secret)
        code_data == cache_get(Redis, AuthCodeKey(req.code))
    IN
    /\ pc[p] = "idle"
    /\ req.grant_type = "authorization_code"
    /\ req.code \in Codes => granted[req.code] <= MaxGrants
    /\ IF app = <<>>
       THEN Finish(p, req, TokenError(401, "Invalid client credentials"))
       ELSE IF req.code = 0
       THEN Finish(p, req, TokenError(400, "Missing authorization code"))
       ELSE IF code_data = <<>>
       THEN Finish(p, req, TokenError(400, "Invalid or expired authorization code"))
       ELSE /\ pc' = [pc EXCEPT ![p] = "delete"]
            /\ local' = [local EXCEPT ![p] = [Idle EXCEPT !.req = req, !.app = app,
                                                         !.code_data = code_data]]
    /\ UNCHANGED <<cache, expires, redis_up, now, next_code, app_active,
                   user_active, challenge_of, granted, wallet, wallet_kind, wallet_grant, last,
                   auth_vars, rate_vars>>

\* cache.delete (security.py line 129)
TokenDelete(p) ==
    /\ pc[p] = "delete"
    /\ cache' = cache_delete(Redis, AuthCodeKey(local[p].req.code)).data
    /\ expires' = cache_delete(Redis, AuthCodeKey(local[p].req.code)).expires
    /\ challenge_of' = Forget(challenge_of, cache')
    /\ pc' = [pc EXCEPT ![p] = "issue"]
    /\ UNCHANGED <<redis_up, now, next_code, app_active, user_active, granted,
                   wallet, wallet_kind, wallet_grant, last, local,
                   auth_vars, rate_vars>>

\* the checks on code_data and the token set (oauth_service.py lines 180-222)
TokenIssue(p) ==
    LET response == issue_for_code(user_active, local[p].code_data[1],
                                   local[p].req, local[p].app[1], now) IN
    /\ pc[p] = "issue"
    /\ granted' = IF response.status = 200
                  THEN [granted EXCEPT ![local[p].req.code] = @ + 1]
                  ELSE granted
    /\ pc' = [pc EXCEPT ![p] = "done"]
    /\ local' = [local EXCEPT ![p].response = response]
    /\ UNCHANGED <<cache, expires, redis_up, now, next_code, app_active,
                   user_active, challenge_of, wallet, wallet_kind, wallet_grant, last,
                   auth_vars, rate_vars>>

\* the worker sends its response and is free again
TokenRespond(p) ==
    /\ pc[p] = "done"
    /\ pc' = [pc EXCEPT ![p] = "idle"]
    /\ local' = [local EXCEPT ![p] = Idle]
    /\ UNCHANGED <<cache, expires, redis_up, now, next_code, app_active,
                   user_active, challenge_of, granted, wallet, wallet_kind, wallet_grant, last,
                   auth_vars, rate_vars>>

(***************************************************************************)
(* Specifications                                                          *)
(***************************************************************************)
\* the token endpoint, one request at a time
Next ==
    \/ Respond
    \/ \E req \in GrantAuthorizeRequests : Authorize(req, "u1")
    \/ \E req \in GrantConsentRequests : Consent(req, "u1")
    \/ \E req \in CodeRequests : Token(req)
    \/ \E req \in RefreshRequests(wallet) : Token(req)
    \/ \E req \in OtherRequests : Token(req)
    \/ \E token \in {NoToken, ForgedRefreshToken, wallet} : UserInfo(token)
    \/ \E key \in DOMAIN cache : Expire(key)
    \/ \E cid \in DOMAIN Applications, value \in BOOLEAN : SetApplicationActive(cid, value)
    \/ \E u \in Users, value \in BOOLEAN : SetUserActive(u, value)

Spec == Init /\ [][Next]_vars

\* the front channel: /authorize and /consent over all request values
NextFront ==
    \/ Respond
    \/ \E req \in FrontAuthorizeRequests, user_id \in SessionUsers : Authorize(req, user_id)
    \/ \E req \in FrontConsentRequests, user_id \in SessionUsers : Consent(req, user_id)
    \/ \E cid \in DOMAIN Applications, value \in BOOLEAN : SetApplicationActive(cid, value)
    \/ \E u \in Users, value \in BOOLEAN : SetUserActive(u, value)

SpecFront == Init /\ [][NextFront]_vars

\* several workers redeeming codes at the same time
NextConcurrent ==
    \/ Respond
    \/ \E req \in GrantAuthorizeRequests : Authorize(req, "u1")
    \/ \E req \in GrantConsentRequests : Consent(req, "u1")
    \/ \E p \in Procs, req \in RacingRequests : TokenReceive(p, req)
    \/ \E p \in Procs : TokenDelete(p)
    \/ \E p \in Procs : TokenIssue(p)
    \/ \E p \in Procs : TokenRespond(p)
    \/ \E key \in DOMAIN cache : Expire(key)

SpecConcurrent == Init /\ [][NextConcurrent]_vars

\* the front channel while Redis goes down and comes back
NextOutage ==
    \/ Respond
    \/ \E req \in GrantAuthorizeRequests, user_id \in SessionUsers : Authorize(req, user_id)
    \/ \E req \in GrantConsentRequests, user_id \in SessionUsers : Consent(req, user_id)
    \/ \E value \in BOOLEAN : SetRedisUp(value)
    \/ \E key \in DOMAIN cache : Expire(key)

SpecOutage == Init /\ [][NextOutage]_vars

\* sessions and bearer tokens: login, logout and the protected requests
NextAuth ==
    \/ Respond
    \/ \E api \in BOOLEAN : Login("u1", api)
    \/ \E sid \in {0, cookie}, token \in {NoToken, wallet}, api \in BOOLEAN :
           Logout(sid, token, api)
    \/ \E sid \in {0, cookie}, token \in {NoToken, wallet} : Me(sid, token)
    \/ \E token \in {NoToken, wallet} : UserInfo(token)
    \/ \E key \in DOMAIN cache : Expire(key)
    \/ \E u \in Users, value \in BOOLEAN : SetUserActive(u, value)

SpecAuth == Init /\ [][NextAuth]_vars

\* browser sessions: login, logout and /me with any session id ever handed
\* out, while Redis goes down and comes back
NextSession ==
    \/ Respond
    \/ \E u \in Users : Login(u, FALSE)
    \/ \E sid \in 0..next_session : Logout(sid, NoToken, FALSE)
    \/ \E sid \in 0..next_session : Me(sid, NoToken)
    \/ \E value \in BOOLEAN : SetRedisUp(value)
    \/ \E key \in DOMAIN cache : Expire(key)

SpecSession == Init /\ [][NextSession]_vars

\* one worker redeeming codes one Redis command at a time, while Redis goes
\* down and comes back
NextRedeemOutage ==
    \/ Respond
    \/ \E req \in GrantAuthorizeRequests : Authorize(req, "u1")
    \/ \E req \in RacingRequests : TokenReceive("p1", req)
    \/ TokenDelete("p1")
    \/ TokenIssue("p1")
    \/ TokenRespond("p1")
    \/ \E value \in BOOLEAN : SetRedisUp(value)

SpecRedeemOutage == Init /\ [][NextRedeemOutage]_vars

\* password attempts, lockouts and their expiry
NextLockout ==
    \/ Respond
    \/ \E username \in Users \cup {"nobody"}, password_ok \in BOOLEAN :
           Authenticate(username, password_ok)
    \/ \E u \in Users : Login(u, FALSE)
    \/ \E u \in Users : LockoutElapses(u)
    \/ \E u \in Users, value \in BOOLEAN : SetUserActive(u, value)

SpecLockout == Init /\ [][NextLockout]_vars

\* the rate limiter under concurrent requests, Redis outages and the clock
NextRate ==
    \/ \E p \in Procs : CheckRateLimitGet(p)
    \/ \E p \in Procs : CheckRateLimitSetex(p)
    \/ \E p \in Procs : CheckRateLimitSet(p)
    \/ \E p \in Procs : CheckRateLimitReturn(p)
    \/ \E value \in BOOLEAN : SetRedisUp(value)
    \/ Tick

SpecRate == Init /\ [][NextRate]_vars

(***************************************************************************)
(* Properties                                                              *)
(***************************************************************************)
IsCodeRedemption(l) == l.op = "token" /\ l.req.grant_type = "authorization_code"

NoTokens(response) ==
    /\ response.access_token = NoToken
    /\ response.refresh_token = NoToken
    /\ response.id_token = NoToken

\* the client of a token request is registered, active and, when
\* confidential, presents its secret
RightfulClient(req) ==
    /\ req.client_id \in DOMAIN Applications
    /\ app_active[req.client_id]
    /\ Applications[req.client_id].is_confidential
           => req.client_secret = Applications[req.client_id].client_secret

\* the response is a redirect to the redirect_uri of the request
RedirectsToClient(l) ==
    l.response.kind = "redirect" /\ l.response.location = l.req.redirect_uri

InvalidGrant(response) ==
    /\ response.status = 400
    /\ response.detail \in {"Invalid or expired authorization code",
                            "Client ID mismatch", "Redirect URI mismatch"}

\* C1: a code yields at most one token set, however the redemptions of
\* concurrent workers interleave.
C1_SingleConsumption == \A code \in Codes : granted[code] <= 1

\* C2: the first redemption of a code in the store, with the parameters it
\* was issued for, by an authenticated client and for an active user, returns
\* a token set; every redemption of a code that already yielded tokens fails
\* with 'Invalid or expired authorization code' and yields nothing.
C2_Step ==
    (last = NoRequest /\ IsCodeRedemption(last') /\ last'.req.code \in Codes
        /\ RightfulClient(last'.req)) =>
    LET req  == last'.req
        key  == AuthCodeKey(req.code)
        resp == last'.response
    IN
    /\ granted[req.code] >= 1 =>
          /\ resp.status = 400
          /\ resp.detail = "Invalid or expired authorization code"
          /\ NoTokens(resp)
          /\ granted' = granted
    /\ (/\ key \in DOMAIN cache
        /\ cache[key].client_id = req.client_id
        /\ req.redirect_uri \in {None, cache[key].redirect_uri}
        /\ user_active[cache[key].user_id]) =>
          /\ granted[req.code] = 0
          /\ resp.status = 200
          /\ resp.access_token # NoToken
          /\ granted'[req.code] = 1
          /\ key \notin DOMAIN cache'

C2_ReplayProtection == [][C2_Step]_vars

W_C2_ReplayRefused ==
    /\ IsCodeRedemption(last)
    /\ last.req.code \in Codes
    /\ RightfulClient(last.req)
    /\ granted[last.req.code] = 1
    /\ last.response.detail = "Invalid or expired authorization code"

\* C3: an /authorize request with an unknown or inactive client, or with a
\* redirect_uri outside the client's allow-list, is never answered by a
\* redirect to the request's redirect_uri.
C3_NoRedirectToUnverifiedUri ==
    (/\ last.op = "authorize"
     /\ \/ last.req.client_id \notin DOMAIN Applications
        \/ ~app_active[last.req.client_id]
        \/ last.req.redirect_uri \notin Applications[last.req.client_id].redirect_uris)
    => ~RedirectsToClient(last)

\* C4: every authorization code in the store is bound to a redirect_uri of
\* its client's allow-list and to a scope made of the client's allowed scopes.
C4_CodeBinding ==
    \A key \in DOMAIN cache :
        key[1] = "auth_code" =>
            /\ cache[key].client_id \in DOMAIN Applications
            /\ cache[key].redirect_uri
                   \in Applications[cache[key].client_id].redirect_uris
            /\ Words(cache[key].scope)
                   \subseteq Applications[cache[key].client_id].allowed_scopes

\* C5: a redemption that carries a redirect_uri other than the one stored
\* with the code issues no token; from an authenticated client it fails with
\* an invalid-grant error.
C5_Step ==
    (/\ last = NoRequest
     /\ IsCodeRedemption(last')
     /\ AuthCodeKey(last'.req.code) \in DOMAIN cache
     /\ Truthy(last'.req.redirect_uri)
     /\ last'.req.redirect_uri # cache[AuthCodeKey(last'.req.code)].redirect_uri)
    => /\ last'.response.status # 200
       /\ NoTokens(last'.response)
       /\ granted' = granted
       /\ wallet' = wallet
       /\ RightfulClient(last'.req) => InvalidGrant(last'.response)

C5_RedirectUriBinding == [][C5_Step]_vars

W_C5_MismatchRefused ==
    /\ IsCodeRedemption(last)
    /\ last.req.redirect_uri = EVIL
    /\ last.response.status = 400
    /\ last.response.detail = "Redirect URI mismatch"

\* C6: an /authorize request that passes the client, response_type and
\* redirect_uri checks and asks for a scope outside the client's allowed
\* scopes is rejected with the error code invalid_scope and mints no code.
C6_ScopeContainment ==
    (/\ last.op = "authorize"
     /\ last.req.client_id \in DOMAIN Applications
     /\ app_active[last.req.client_id]
     /\ last.req.response_type \in Applications[last.req.client_id].response_types
     /\ last.req.redirect_uri \in Applications[last.req.client_id].redirect_uris
     /\ ~(Words(last.req.scope) \subseteq Applications[last.req.client_id].allowed_scopes))
    => /\ ~last.minted
       /\ "code" \notin DOMAIN last.response.params
       /\ "error" \in DOMAIN last.response.params
       /\ last.response.params["error"] = "invalid_scope"

\* C7: a code minted for a request with a code_challenge is redeemed only by
\* a token request whose code_verifier matches the challenge (method plain).
C7_Step ==
    (/\ last = NoRequest
     /\ IsCodeRedemption(last')
     /\ last'.req.code \in Codes
     /\ challenge_of[last'.req.code] # None
     /\ last'.response.status = 200)
    => last'.req.code_verifier = challenge_of[last'.req.code]

C7_PkceEnforced == [][C7_Step]_vars

\* C8: a redirect to the client carries the supplied state
\* unchanged, and no state parameter when none was supplied.
C8_StateEcho ==
    (last.op \in {"authorize", "consent"} /\ RedirectsToClient(last)) =>
        IF last.req.state # None
        THEN /\ "state" \in DOMAIN last.response.params
             /\ last.response.params["state"] = last.req.state
        ELSE "state" \notin DOMAIN last.response.params

\* C9: a token request whose client does not authenticate gets 401 'Invalid
\* client credentials', no token, and leaves the store as it was.
C9_Step ==
    (last = NoRequest /\ last'.op = "token" /\ ~RightfulClient(last'.req)) =>
        /\ last'.response.status = 401
        /\ last'.response.detail = "Invalid client credentials"
        /\ NoTokens(last'.response)
        /\ cache' = cache
        /\ granted' = granted
        /\ wallet' = wallet

C10_RefreshNeedsRecord ==
    (/\ last.op = "token"
     /\ last.req.grant_type = "refresh_token"
     /\ last.response.status = 200)
    => \E key \in DOMAIN cache : key[1] = "refresh_token"

\* C11: a logout that presents a valid access token puts the token's
\* identifier on the blacklist, and a bearer token presented at a logout is
\* refused by every later protected request (GET /me, GET /userinfo) that
\* carries no session cookie.
C11_LogoutRevokes ==
    /\ (/\ last.op = "logout"
        /\ last.kind = "access_token"
        /\ decode_jwt(last.credentials, now) # <<>>)
       => <<"blacklist", last.credentials.jti>> \in DOMAIN cache
    /\ (/\ last.op \in {"me", "userinfo"}
        /\ last.session_id = 0
        /\ last.credentials \in logged_out)
       => last.response.status = 401

\* C12: GET /userinfo with a token that was issued as a refresh token or as
\* an ID token answers 401 and returns no user claims.
C12_UserInfoAccessTokensOnly ==
    (/\ last.op = "userinfo"
     /\ last.kind \in {"refresh_token", "id_token"})
    => /\ last.response.status = 401
       /\ last.response.claims = NoClaims

\* C13: every authorization code handed to the client in a redirect of
\* /authorize or /consent is in the store when the redirect is returned; with
\* the store unreachable no code is handed out.
C13_StoreWriteSurfaced ==
    (/\ last.op \in {"authorize", "consent"}
     /\ last.response.kind = "redirect"
     /\ "code" \in DOMAIN last.response.params)
    => AuthCodeKey(last.response.params["code"]) \in DOMAIN cache

\* C14: a call of check_rate_limit during which a Redis command failed does
\* not return True.
C14_RateLimitFailsClosed ==
    \A p \in Procs :
        (rl_pc[p] = "done" /\ rl_local[p].failed) => ~rl_local[p].result

\* C15: while no Redis command has failed, at most RateLimit calls on a key
\* return True between the creation of its counter and its expiry, and the
\* counter equals the number of calls admitted in that window.
C15_RateLimitBound ==
    ~outage =>
        /\ admitted <= RateLimit
        /\ RateKey \in DOMAIN cache => int(cache[RateKey]) = admitted

\* C16: while no Redis command has failed, the counter of a key expires
\* RateWindow seconds after the call that created it; later calls of the
\* window leave its expiry alone.
C16_FixedWindow ==
    (~outage /\ RateKey \in DOMAIN cache) =>
        expires[RateKey] = window_start + RateWindow

\* C17: the result of handle_authorization_request is that of the first
\* failing check in the order client, response_type, redirect_uri, scope,
\* user authenticated, consent; with all of them passed and an active user
\* the result is the redirect with a code.
C17_CheckOrder ==
    last.op = "authorize" =>
        LET req == last.req
            res == last.result
        IN
        IF req.client_id \notin DOMAIN Applications \/ ~app_active[req.client_id]
        THEN res.kind = "error" /\ res.detail = "Invalid client_id"
        ELSE IF req.response_type \notin Applications[req.client_id].response_types
        THEN res.kind = "error" /\ res.detail = "Unsupported response_type"
        ELSE IF req.redirect_uri \notin Applications[req.client_id].redirect_uris
        THEN res.kind = "error" /\ res.detail = "Invalid redirect_uri"
        ELSE IF ~(Words(req.scope) \subseteq Applications[req.client_id].allowed_scopes)
        THEN res.kind = "error" /\ res.detail = "Invalid scope"
        ELSE IF last.user_id = None
        THEN res.kind = "login_required"
        ELSE IF ~user_active[last.user_id]
        THEN res.kind = "error" /\ res.status = 403
        ELSE IF Applications[req.client_id].require_consent
        THEN res.kind = "consent_required"
        ELSE res.kind = "redirect" /\ res.code \in Codes

W_C17_ResponseTypeBeforeRedirectUri ==
    /\ last.op = "authorize"
    /\ last.req.client_id = "c1"
    /\ last.req.response_type = "token"
    /\ last.req.redirect_uri = EVIL
    /\ last.result.detail = "Unsupported response_type"

\* C18: a GET /authorize adds an entry to the auth_code namespace exactly when
\* its result is the redirect with a code, and that entry is the code's; every
\* other result leaves the store as it was.
C18_Step ==
    (last = NoRequest /\ last'.op = "authorize") =>
        IF last'.result.kind = "redirect" /\ last'.result.code # 0
        THEN /\ AuthCodeKey(last'.result.code) \notin DOMAIN cache
             /\ DOMAIN cache' = DOMAIN cache \cup {AuthCodeKey(last'.result.code)}
             /\ \A key \in DOMAIN cache : cache'[key] = cache[key]
        ELSE cache' = cache

\* C18: codes are minted only on the ISSUED outcome of /authorize.
C18_MintedOnlyOnIssued == [][C18_Step]_vars

\* C19: a consent submission with consent=false that reaches handle_consent is
\* answered by a redirect to the client with error=access_denied and the
\* supplied state, hands out no code and leaves the store unchanged, whatever
\* the client_id, the scope and the user.
C19_Step ==
    (/\ last = NoRequest
     /\ last'.op = "consent"
     /\ ~last'.req.consent
     /\ Truthy(last'.user_id))
    => /\ last'.response.kind = "redirect"
       /\ last'.response.location = last'.req.redirect_uri
       /\ last'.response.params =
              IF last'.req.state = None
              THEN [error |-> "access_denied",
                    error_description |-> "User denied the request"]
              ELSE [error |-> "access_denied",
                    error_description |-> "User denied the request",
                    state |-> last'.req.state]
       /\ ~last'.minted
       /\ cache' = cache
       /\ expires' = expires
       /\ next_code' = next_code

\* C19: consent denial is an access_denied redirect without effect on the store.
C19_ConsentDenial == [][C19_Step]_vars

W_C19_DeniedForUnknownClient ==
    /\ last.op = "consent"
    /\ ~last.req.consent
    /\ last.req.client_id = "cX"
    /\ last.req.state = "xyz123"
    /\ last.response.kind = "redirect"
    /\ last.response.params["error"] = "access_denied"

\* C20: a successful redemption returns an access token for the user and the
\* scope bound to the code, an ID token exactly when openid is a word of that
\* scope, a refresh token exactly when offline_access is one, and leaves a
\* refresh-token record in the store whenever it returns a refresh token.
C20_Step ==
    (last = NoRequest /\ IsCodeRedemption(last') /\ last'.response.status = 200) =>
        LET code_data == cache[AuthCodeKey(last'.req.code)]
            response  == last'.response
        IN
        /\ response.access_token.token_type = "access_token"
        /\ response.access_token.sub = code_data.user_id
        /\ response.access_token.scope = code_data.scope
        /\ response.id_token # NoToken <=> "openid" \in Words(code_data.scope)
        /\ response.refresh_token # NoToken
               <=> "offline_access" \in Words(code_data.scope)
        /\ response.refresh_token # NoToken
               => \E key \in DOMAIN cache' : key[1] = "refresh_token"

\* C20: the composition of the token set of the authorization_code grant.
C20_TokenSetComposition == [][C20_Step]_vars

\* the same request from a client_id that names no registered client
FromMissingClient(req) == [req EXCEPT !.client_id = "cX"]

InactiveClient(client_id) == client_id \in DOMAIN Applications /\ ~app_active[client_id]

C21_Step ==
    (/\ last = NoRequest
     /\ last' # NoRequest
     /\ last'.op \in {"authorize", "consent", "token"}
     /\ InactiveClient(last'.req.client_id)) =>
        LET req == last'.req
            mreq == FromMissingClient(req)
        IN
        /\ cache' = cache
        /\ next_code' = next_code
        /\ last'.op = "authorize" =>
               LET m == handle_authorization_request(Redis, next_code, app_active,
                            user_active, mreq, last'.user_id) IN
               /\ ~last'.minted
               /\ m.cache.data = cache
               /\ last'.result = m.result
               /\ last'.response = authorize_response(mreq, m.result)
        /\ last'.op = "consent" =>
               LET m == handle_consent(Redis, next_code, app_active, user_active,
                            mreq.client_id, mreq.scope, last'.user_id, mreq.consent,
                            mreq.redirect_uri, mreq.state) IN
               /\ ~last'.minted
               /\ m.cache.data = cache
               /\ IF Truthy(last'.user_id)
                  THEN /\ last'.result = m.result
                       /\ last'.response = consent_response(mreq, m.result)
                  ELSE last'.response = ErrorResponse(401, "Authentication required")
        /\ last'.op = "token" =>
               LET m == handle_token_request(Redis, app_active, user_active, mreq) IN
               /\ NoTokens(last'.response)
               /\ m.cache.data = cache
               /\ last'.response = m.response

\* C21: a request in the name of a registered but inactive client has the
\* outcome (result, response, store) of the same request in the name of a
\* client_id that is not registered, and yields no code and no token.
C21_InactiveAsMissing == [][C21_Step]_vars

\* a deactivated client presents its own code with its own credentials
W_C21_InactiveClientRefused ==
    /\ last # NoRequest
    /\ IsCodeRedemption(last)
    /\ InactiveClient(last.req.client_id)
    /\ AuthCodeKey(last.req.code) \in DOMAIN cache
    /\ cache[AuthCodeKey(last.req.code)].client_id = last.req.client_id
    /\ last.response.status = 401

\* the client_secret values a token request may carry
Secrets == {None, "", "s1", "s2", "bad"}

\* C22: validate_client_credentials returns the client exactly when it is
\* registered, active and, if confidential, presented with its stored secret;
\* a public client is accepted whatever secret comes with the request, a
\* confidential one is refused without a secret.
C22_ClientCredentialCheck ==
    \A cid \in ClientIds, secret \in Secrets :
        LET found == validate_client_credentials(app_active, cid, secret) IN
        /\ found # <<>> <=>
               /\ cid \in DOMAIN Applications
               /\ app_active[cid]
               /\ \/ ~Applications[cid].is_confidential
                  \/ secret = Applications[cid].client_secret
        /\ found # <<>> => found[1].client_id = cid
        /\ (cid \in DOMAIN Applications /\ ~Applications[cid].is_confidential) =>
               found = validate_client_credentials(app_active, cid, None)
        /\ (cid \in DOMAIN Applications /\ Applications[cid].is_confidential) =>
               validate_client_credentials(app_active, cid, None) = <<>>

\* an active confidential client that sends no secret is refused at /token
W_C22_AbsentSecretRefused ==
    /\ last # NoRequest
    /\ last.op = "token"
    /\ last.req.client_id = "c1"
    /\ app_active["c1"]
    /\ last.req.client_secret = None
    /\ last.response.status = 401

\* the tokens of a response
Issued(response) == {response[k] : k \in Kept(response)}

\* C23: a token issued by the token endpoint decodes to the claims it was
\* made from plus exp, iat, iss, jti and token_type, with exp = iat +
\* lifetime, and no two issued tokens carry the same jti.
C23_TokenRoundTrip ==
    (last # NoRequest /\ last.op = "token" /\ last.response.status = 200) =>
        /\ \A token \in Issued(last.response) :
               LET decoded == decode_jwt(token, now) IN
               /\ decoded # <<>>
               /\ decoded[1].sub = token.sub
               /\ decoded[1].scope = token.scope
               /\ decoded[1].token_type \in {"access_token", "id_token"}
               /\ decoded[1].iss = Issuer
               /\ decoded[1].iat = now
               /\ decoded[1].exp = decoded[1].iat + 60 * jwt_access_token_expire_minutes
               /\ decoded[1].jti # 0
        /\ \A k1, k2 \in Kept(last.response) :
               k1 # k2 => last.response[k1].jti # last.response[k2].jti
        /\ wallet # NoToken =>
               \A token \in Issued(last.response) \ {wallet} : token.jti # wallet.jti

\* C24: a session id resolves to the user it was created for from creation
\* until logout or expiry, and never authenticates a request afterwards.
C24_SessionLifecycle ==
    (last # NoRequest /\ last.op = "me" /\ last.session_id # 0) =>
        LET session == session_log[last.session_id] IN
        /\ session.ended => last.response.status = 401
        /\ ~session.ended =>
               /\ last.response.status = 200
               /\ last.response.user = session.user_id
        /\ last.response.status = 200 => last.response.user = session.user_id

\* the refusals of the authorization_code grant that come after the code was
\* taken from the store
RefusedAfterConsume(response) ==
    \/ response.status = 400 /\ response.detail \in {"Client ID mismatch", "Redirect URI mismatch"}
    \/ response.status = 403 /\ response.detail = "User account is not active"

C25_Step ==
    /\ (last = NoRequest /\ IsCodeRedemption(last') /\ RefusedAfterConsume(last'.response)) =>
           /\ AuthCodeKey(last'.req.code) \in DOMAIN cache
           /\ AuthCodeKey(last'.req.code) \notin DOMAIN cache'
           /\ NoTokens(last'.response)
    /\ \A code \in 1..next_code :
           AuthCodeKey(code) \notin DOMAIN cache => AuthCodeKey(code) \notin DOMAIN cache'
    /\ (/\ last = NoRequest
        /\ IsCodeRedemption(last')
        /\ last'.req.code \in 1..next_code
        /\ AuthCodeKey(last'.req.code) \notin DOMAIN cache
        /\ RightfulClient(last'.req)) =>
           /\ last'.response.status = 400
           /\ last'.response.detail = "Invalid or expired authorization code"
           /\ NoTokens(last'.response)

C26_NoRedemptionWithoutRemoval ==
    \A code \in Codes : granted[code] > 0 => AuthCodeKey(code) \notin DOMAIN cache

\* C27: a token response is issued under a grant type only if the client's
\* registered grant_types list has it.
C27_GrantTypeRegistered ==
    (last # NoRequest /\ last.op = "token" /\ last.response.status = 200) =>
        supports_grant_type(Applications[last.req.client_id], last.req.grant_type)

C28_Step ==
    (/\ last = NoRequest
     /\ last' # NoRequest
     /\ last'.op = "token"
     /\ last'.req.grant_type = "refresh_token"
     /\ last'.response.status = 200
     /\ wallet_kind = "refresh_token"
     /\ last'.req.refresh_token = wallet) =>
        LET scope == last'.response.access_token.scope IN
        /\ Words(scope) \subseteq Words(wallet_grant.scope)
        /\ Words(scope) \subseteq Applications[last'.req.client_id].allowed_scopes
        /\ last'.req.client_id = wallet_grant.client_id

\* C28: an access token issued by the refresh_token grant carries only scope
\* tokens of the grant the refresh token came from and of the client's
\* allowed scopes, and the refresh token is honoured only for its client.
C28_NoScopeEscalation == [][C28_Step]_vars

\* C29: the expires_in of a token response is the client's access-token
\* lifetime, and it is the validity period of the access token beside it.
C29_AdvertisedLifetime ==
    (last # NoRequest /\ last.op = "token" /\ last.response.status = 200) =>
        /\ last.response.expires_in = Applications[last.req.client_id].access_token_lifetime
        /\ last.response.access_token.exp - last.response.access_token.iat
               = last.response.expires_in

C30_Step ==
    (last = NoRequest /\ last' # NoRequest /\ last'.op = "authenticate"
        /\ last'.username \in Users) =>
        LET u      == last'.username
            before == UserRow(u)[1]
        IN
        /\ (lockout_until'[u] # lockout_until[u] /\ lockout_until'[u] # 0) =>
               fresh_failures'[u] >= 5
        /\ is_locked(before, now) =>
               /\ last'.response.status = 423
               /\ failed_login_attempts'[u] = failed_login_attempts[u]
               /\ lockout_until'[u] = lockout_until[u]
        /\ last'.response.status = 200 =>
               /\ failed_login_attempts'[u] = 0
               /\ lockout_until'[u] = 0
        /\ (~is_locked(before, now) /\ fresh_failures[u] = 0 /\ ~last'.password_ok) =>
               ~is_locked([before EXCEPT !.lockout_until = lockout_until'[u]], now)

\* C30: an account is locked only by the fifth wrong password in a row since
\* the last success or lockout expiry; while it is locked every attempt is
\* refused as locked and the counter stays; a success clears counter and
\* lockout; one wrong password after an expired lockout does not lock again.
C30_LockoutNeedsFiveFailures == [][C30_Step]_vars

====
